---------------------------- MODULE Spec2Model ----------------------------
(***************************************************************************)
(* The persons_crud / personas_crud HTTP service: five axum routes, each   *)
(* issuing one SQL statement against the SQLite table `person`.            *)
(* The two copies differ only in identifiers, so one model covers both.    *)
(*                                                                         *)
(* A request is accepted by the router (extractors run), then its handler  *)
(* awaits exactly one statement, which SQLite executes atomically, and     *)
(* maps the statement's Result to a status code and a JSON body.           *)
(***************************************************************************)
EXTENDS Integers, Sequences, FiniteSets, TLC

(* ------------------------------ bounds -------------------------------- *)

\* Largest rowid the model lets AUTOINCREMENT hand out.
MaxId == 2

\* Client connections whose requests may be in flight at the same time.
Procs == {"c1", "c2"}

FirstNames == {"Ana"}
LastNames  == {"Diaz"}
Dnis       == {"111", "222"}
Addresses  == {"Calle 1", "Calle 2"}

Ids == 1..MaxId

\* Outcome of the storage layer for one statement: it runs, or the pool /
\* the database file fails underneath it (sqlx::Error other than a
\* constraint violation).
Backends == {"ok", "io_error"}

(* ------------------------------ JSON ---------------------------------- *)

JsonKeys == {"firstName", "lastName", "dni", "address"}

\* Complete request objects, keyed as serde's rename_all = "camelCase" reads.
JsonObjects ==
    { [firstName |-> f, lastName |-> l, dni |-> d, address |-> a] :
        f \in FirstNames, l \in LastNames, d \in Dnis, a \in Addresses }

\* Objects lacking a required key.
SampleObject == [firstName |-> "Ana", lastName |-> "Diaz", dni |-> "111", address |-> "Calle 1"]
PartialObjects == { [k \in JsonKeys \ {m} |-> SampleObject[k]] : m \in {"lastName", "dni"} }

\* A request body as it arrives: text that is or is not JSON syntax, and the
\* object it denotes when it is.
Bodies ==
    { [syntax |-> TRUE, obj |-> o] : o \in JsonObjects \cup PartialObjects }
      \cup { [syntax |-> FALSE, obj |-> SampleObject] }

NoBody == [syntax |-> TRUE, obj |-> [k \in {} |-> ""]]

\* PersonRequest: the four String fields, by their Rust names.
PersonRequest(o) ==
    [first_name |-> o["firstName"], last_name |-> o["lastName"],
     dni |-> o["dni"], address |-> o["address"]]

\* axum's Json<PersonRequest> extractor: 0 when the body deserializes,
\* otherwise the status of the rejection it answers with (the handler is
\* not called): 400 for a syntax error, 422 for a data error such as a
\* missing field.
JsonRejection(body) ==
    IF ~body.syntax THEN 400
    ELSE IF ~(JsonKeys \subseteq DOMAIN body.obj) THEN 422
    ELSE 0

\* serde_json::to_value(person) with rename_all = "camelCase".
PersonJson(r) ==
    [id |-> r.id, firstName |-> r.first_name, lastName |-> r.last_name,
     dni |-> r.dni, address |-> r.address]

(* ------------------------------ storage ------------------------------- *)

Row(id, payload) ==
    [id |-> id, first_name |-> payload.first_name, last_name |-> payload.last_name,
     dni |-> payload.dni, address |-> payload.address]

Max(S) == CHOOSE m \in S : \A x \in S : x <= m

AlwaysUnique(others, dni) == TRUE

\* dni TEXT NOT NULL UNIQUE: may a row with this dni exist beside `others`?
UniqueDni(others, dni) == ~\E r \in others : r.dni = dni

\* id INTEGER PRIMARY KEY: without AUTOINCREMENT the rowid is one more than
\* the largest rowid now in the table.
RowidWithoutAutoincrement(table, seq) ==
    IF table = {} THEN 1 ELSE Max({ r.id : r \in table }) + 1

\* id INTEGER PRIMARY KEY AUTOINCREMENT: one more than the largest rowid the
\* table ever held (sqlite_sequence).
NewRowid(table, seq) == seq + 1

Err(kind, table, seq) ==
    [ok |-> FALSE, err |-> kind, table |-> table, seq |-> seq,
     rows_affected |-> 0, last_insert_rowid |-> 0]

Ok(table, seq, n, rowid) ==
    [ok |-> TRUE, err |-> "", table |-> table, seq |-> seq,
     rows_affected |-> n, last_insert_rowid |-> rowid]

\* INSERT OR REPLACE: the conflicting row is deleted, the new one inserted.
InsertOrReplace(table, seq, payload) ==
    LET id == NewRowid(table, seq)
    IN  Ok({ r \in table : r.dni # payload.dni } \cup {Row(id, payload)}, id, 1, id)

\* INSERT OR IGNORE: a conflicting insert is skipped and reported as success.
InsertOrIgnore(table, seq, payload) ==
    IF ~UniqueDni(table, payload.dni)
    THEN Ok(table, seq, 0, seq)
    ELSE LET id == NewRowid(table, seq)
         IN  Ok(table \cup {Row(id, payload)}, id, 1, id)

\* INSERT INTO person (first_name, last_name, dni, address) VALUES (?, ?, ?, ?)
Insert(table, seq, payload) ==
    IF ~UniqueDni(table, payload.dni)
    THEN Err("constraint", table, seq)
    ELSE LET id == NewRowid(table, seq)
         IN  Ok(table \cup {Row(id, payload)}, id, 1, id)

\* The rows a WHERE id = ? clause selects.
WhereId(table, id) == { r \in table : r.id = id }

\* An assignment list that forgets address = ?.
SetColumnsKeepAddress(r, payload) ==
    [Row(r.id, payload) EXCEPT !.address = r.address]

\* The assignment list of the UPDATE statement.
SetColumns(r, payload) == Row(r.id, payload)

\* rows_affected counting only the rows whose values changed.
UpdateCountingChanges(table, seq, id, payload) ==
    LET matched == WhereId(table, id)
        changed == { r \in matched : SetColumns(r, payload) # r }
    IN  IF ~UniqueDni(table \ matched, payload.dni) /\ matched # {}
        THEN Err("constraint", table, seq)
        ELSE Ok((table \ matched) \cup { SetColumns(r, payload) : r \in matched },
                seq, Cardinality(changed), 0)

\* UPDATE person SET first_name = ?, last_name = ?, dni = ?, address = ? WHERE id = ?
Update(table, seq, id, payload) ==
    LET matched == WhereId(table, id)
    IN  IF matched = {} THEN Ok(table, seq, 0, 0)
        ELSE IF ~UniqueDni(table \ matched, payload.dni)
        THEN Err("constraint", table, seq)
        ELSE Ok((table \ matched) \cup { SetColumns(r, payload) : r \in matched },
                seq, Cardinality(matched), 0)

\* DELETE FROM person, the WHERE clause lost.
DeleteWithoutWhere(table, seq, id) == Ok({}, seq, Cardinality(table), 0)

\* DELETE FROM person WHERE id = ?
Delete(table, seq, id) ==
    LET matched == WhereId(table, id)
    IN  Ok(table \ matched, seq, Cardinality(matched), 0)

RECURSIVE ScanRows(_)
\* A full table scan: the rows in rowid order.
ScanRows(table) ==
    IF table = {} THEN <<>>
    ELSE LET first == CHOOSE r \in table : \A s \in table : r.id <= s.id
         IN  <<first>> \o ScanRows(table \ {first})

SelectAllButFirst(table) ==
    IF table = {} THEN <<>> ELSE Tail(ScanRows(table))

\* SELECT id, first_name, last_name, dni, address FROM person
SelectAll(table) == ScanRows(table)

\* SELECT ... FROM person WHERE id = ?  (fetch_optional)
SelectById(table, id) == WhereId(table, id)

\* What .execute(&state.pool).await yields: the statement's result, or the
\* storage layer's error when the backend fails.
Await(backend, result, table, seq) ==
    IF backend = "ok" THEN result ELSE Err("backend", table, seq)

(* ------------------------------ state --------------------------------- *)

VARIABLES
    person,           \* the rows of table person
    sqlite_sequence,  \* AUTOINCREMENT's record of the largest rowid used
    pc,               \* per connection: "idle", "handling" (awaiting the statement), "done"
    req,              \* per connection: the request being served / last served
    resp,             \* per connection: the response to it
    expected,         \* what the acknowledged writes say the live persons are
    issued,           \* ids returned by creates answered 201
    deleted,          \* ids whose delete was answered 200
    races             \* pairs of creates in flight together, undisturbed by others

vars == <<person, sqlite_sequence, pc, req, resp, expected, issued, deleted, races>>

store == <<person, sqlite_sequence>>
ghost == <<expected, issued, deleted>>

Requests ==
       { [op |-> "create", id |-> 0, body |-> b] : b \in Bodies }
  \cup { [op |-> "list", id |-> 0, body |-> NoBody] }
  \cup { [op |-> o, id |-> i, body |-> NoBody] : o \in {"get", "delete"}, i \in Ids }
  \cup { [op |-> "update", id |-> i, body |-> b] : i \in Ids, b \in Bodies }

NoRequest == [op |-> "none", id |-> 0, body |-> NoBody]

(* ------------------------------ responses ----------------------------- *)

Response(status, body) == [status |-> status, body |-> body]

NoResponse == Response(0, [kind |-> "none"])

\* json!({ "id": res.last_insert_rowid() })
IdBody(id) == [kind |-> "id", id |-> id]
\* json!({ "error": ... })
ErrorBody(msg) == [kind |-> "error", error |-> msg]
\* json!({ "message": ... })
MessageBody(msg) == [kind |-> "message", message |-> msg]
\* serde_json::to_value(person)
PersonBody(r) == [kind |-> "person", person |-> PersonJson(r)]
\* serde_json::to_value(persons)
ListBody(rows) == [kind |-> "list", persons |-> [i \in 1..Len(rows) |-> PersonJson(rows[i])]]
\* The plain-text body of an extractor rejection.
RejectionBody == [kind |-> "text"]

LiveIds == { r.id : r \in person }
LiveDnis == { r.dni : r \in person }

(* ------------------------------ observation --------------------------- *)

\* The live persons a client infers from one acknowledged request.
Observe(exp, r, response) ==
    LET entry == [id |-> IF r.op = "create" THEN response.body.id ELSE r.id,
                  firstName |-> r.body.obj["firstName"], lastName |-> r.body.obj["lastName"],
                  dni |-> r.body.obj["dni"], address |-> r.body.obj["address"]]
    IN  IF r.op = "create" /\ response.status = 201 THEN exp \cup {entry}
        ELSE IF r.op = "update" /\ response.status = 200
        THEN { e \in exp : e.id # r.id } \cup {entry}
        ELSE IF r.op = "delete" /\ response.status = 200
        THEN { e \in exp : e.id # r.id }
        ELSE exp

IsCreate(p) == pc[p] = "handling" /\ req[p].op = "create"

\* p's handler returns `response`; the bookkeeping of what clients have seen.
Respond(p, response) ==
    /\ pc' = [pc EXCEPT ![p] = "done"]
    /\ resp' = [resp EXCEPT ![p] = response]
    /\ req' = req
    /\ expected' = Observe(expected, req[p], response)
    /\ issued' = IF req[p].op = "create" /\ response.status = 201
                 THEN issued \cup {response.body.id} ELSE issued
    /\ deleted' = IF req[p].op = "delete" /\ response.status = 200
                  THEN deleted \cup {req[p].id} ELSE deleted
    /\ races' = IF person' # person
                THEN { c \in races : p \in {c.a, c.b} } ELSE races

(* ------------------------------ router -------------------------------- *)

Init ==
    /\ person = {}
    /\ sqlite_sequence = 0
    /\ pc = [p \in Procs |-> "idle"]
    /\ req = [p \in Procs |-> NoRequest]
    /\ resp = [p \in Procs |-> NoResponse]
    /\ expected = {}
    /\ issued = {}
    /\ deleted = {}
    /\ races = {}

\* Creates in flight, each of which may still take a rowid.
CreatesInFlight == Cardinality({ q \in Procs : IsCreate(q) })

\* The creates in flight beside p's new create r: a pair is recorded when
\* neither national id is live at the moment both are in flight.
Rivals(p, r) ==
    IF r.op = "create" /\ JsonRejection(r.body) = 0 /\ r.body.obj["dni"] \notin LiveDnis
    THEN { [a |-> q, b |-> p] :
             q \in { q \in Procs \ {p} : IsCreate(q) /\ req[q].body.obj["dni"] \notin LiveDnis } }
    ELSE {}

\* The router accepts request r on connection p and runs the extractors of
\* the route's handler; a body the Json extractor rejects is answered at
\* once and the handler is not called.
Route(p, r) ==
    /\ pc[p] # "handling"
    /\ r.op = "create" /\ JsonRejection(r.body) = 0
          => sqlite_sequence + CreatesInFlight < MaxId
    /\ req' = [req EXCEPT ![p] = r]
    /\ IF r.op \in {"create", "update"} /\ JsonRejection(r.body) # 0
       THEN /\ pc' = [pc EXCEPT ![p] = "done"]
            /\ resp' = [resp EXCEPT ![p] = Response(JsonRejection(r.body), RejectionBody)]
       ELSE /\ pc' = [pc EXCEPT ![p] = "handling"]
            /\ resp' = [resp EXCEPT ![p] = NoResponse]
    /\ races' = { c \in races : p \notin {c.a, c.b} } \cup Rivals(p, r)
    /\ UNCHANGED <<store, ghost>>

(* ------------------------------ handlers ------------------------------ *)

crear_person_response(result) ==
    IF result.ok
    THEN Response(201, IdBody(result.last_insert_rowid))
    ELSE Response(400, ErrorBody(result.err))

crear_person(p, backend) ==
    /\ pc[p] = "handling" /\ req[p].op = "create"
    /\ LET payload == PersonRequest(req[p].body.obj)
           result == Await(backend, Insert(person, sqlite_sequence, payload),
                           person, sqlite_sequence)
       IN  /\ person' = result.table
           /\ sqlite_sequence' = result.seq
           /\ Respond(p, crear_person_response(result))

listar_persons_response(result, rows) ==
    IF result.ok
    THEN Response(200, ListBody(rows))
    ELSE Response(500, ErrorBody(result.err))

listar_persons(p, backend) ==
    /\ pc[p] = "handling" /\ req[p].op = "list"
    /\ LET result == Await(backend, Ok(person, sqlite_sequence, 0, 0),
                           person, sqlite_sequence)
       IN  /\ UNCHANGED store
           /\ Respond(p, listar_persons_response(result, SelectAll(person)))

obtener_person_response(result, found) ==
    IF result.ok /\ found # {}
    THEN Response(200, PersonBody(CHOOSE r \in found : TRUE))
    ELSE IF result.ok
    THEN Response(404, ErrorBody("Person not found"))
    ELSE Response(500, ErrorBody(result.err))

obtener_person(p, backend) ==
    /\ pc[p] = "handling" /\ req[p].op = "get"
    /\ LET result == Await(backend, Ok(person, sqlite_sequence, 0, 0),
                           person, sqlite_sequence)
       IN  /\ UNCHANGED store
           /\ Respond(p, obtener_person_response(result, SelectById(person, req[p].id)))

actualizar_person_response(result) ==
    IF result.ok /\ result.rows_affected > 0
    THEN Response(200, MessageBody("Person updated"))
    ELSE IF result.ok
    THEN Response(404, ErrorBody("Person not found"))
    ELSE Response(400, ErrorBody(result.err))

actualizar_person(p, backend) ==
    /\ pc[p] = "handling" /\ req[p].op = "update"
    /\ LET payload == PersonRequest(req[p].body.obj)
           result == Await(backend, Update(person, sqlite_sequence, req[p].id, payload),
                           person, sqlite_sequence)
       IN  /\ person' = result.table
           /\ sqlite_sequence' = result.seq
           /\ Respond(p, actualizar_person_response(result))

eliminar_person_response(result) ==
    IF result.ok /\ result.rows_affected > 0
    THEN Response(200, MessageBody("Person deleted"))
    ELSE IF result.ok
    THEN Response(404, ErrorBody("Person not found"))
    ELSE Response(500, ErrorBody(result.err))

eliminar_person(p, backend) ==
    /\ pc[p] = "handling" /\ req[p].op = "delete"
    /\ LET result == Await(backend, Delete(person, sqlite_sequence, req[p].id),
                           person, sqlite_sequence)
       IN  /\ person' = result.table
           /\ sqlite_sequence' = result.seq
           /\ Respond(p, eliminar_person_response(result))

Handle(p, backend) ==
    \/ crear_person(p, backend)
    \/ listar_persons(p, backend)
    \/ obtener_person(p, backend)
    \/ actualizar_person(p, backend)
    \/ eliminar_person(p, backend)

\* The service over a storage layer that executes every statement.
Next ==
    \/ \E p \in Procs, r \in Requests : Route(p, r)
    \/ \E p \in Procs : Handle(p, "ok")

Spec == Init /\ [][Next]_vars

\* The service over a storage layer that may fail under any statement.
NextFault ==
    \/ \E p \in Procs, r \in Requests : Route(p, r)
    \/ \E p \in Procs, backend \in Backends : Handle(p, backend)

SpecFault == Init /\ [][NextFault]_vars

TypeOK ==
    /\ sqlite_sequence \in 0..MaxId
    /\ \A r \in person : r.id \in 1..sqlite_sequence
    /\ \A p \in Procs : pc[p] \in {"idle", "handling", "done"}

(* ------------------------------ properties ---------------------------- *)

\* Connection p's handler runs its statement and returns in this step.
Executes(p) == pc[p] = "handling" /\ pc'[p] = "done"

Answered(p, op, status) ==
    pc[p] = "done" /\ req[p].op = op /\ resp[p].status = status

ConstraintError(p) ==
    resp[p].body.kind = "error" /\ resp[p].body.error = "constraint"

BodyDni(p) == req[p].body.obj["dni"]

\* The person a client expects from a write with body b on id.
Entry(id, b) ==
    [id |-> id, firstName |-> b.obj["firstName"], lastName |-> b.obj["lastName"],
     dni |-> b.obj["dni"], address |-> b.obj["address"]]

\* C1: in every reachable state no two rows of table person have the same
\* national id (dni).
NoDuplicateDni == \A r, s \in person : r.dni = s.dni => r = s

\* Two rows are live and a write that would have duplicated a dni was refused.
NoDuplicateDniWitness ==
    /\ Cardinality(person) = 2
    /\ \E p \in Procs : Answered(p, "create", 400) /\ ConstraintError(p)

DuplicateCreate(p) == req[p].op = "create" /\ BodyDni(p) \in LiveDnis

ConflictingUpdate(p) ==
    /\ req[p].op = "update"
    /\ req[p].id \in LiveIds
    /\ \E r \in person : r.id # req[p].id /\ r.dni = BodyDni(p)

\* C2: a create whose dni a live row holds, and an update of a live id whose
\* new dni another live row holds, answer 400 with an {error} body and leave
\* the table exactly as it was.
RefusedWriteLeavesStore ==
    [][\A p \in Procs :
          Executes(p) /\ (DuplicateCreate(p) \/ ConflictingUpdate(p))
            => /\ resp'[p].status = 400
               /\ resp'[p].body.kind = "error"
               /\ person' = person]_vars

\* Both a duplicate create and a conflicting update have been refused.
RefusedWriteWitness ==
    \E p, q \in Procs :
        /\ Answered(p, "create", 400) /\ ConstraintError(p)
        /\ Answered(q, "update", 400) /\ ConstraintError(q)
        /\ Cardinality(person) = 2

\* C3: a create with a dni no live row holds answers 201 with an id greater
\* than every id an earlier create returned, deleted ones included; an id
\* that becomes present was never present before.
FreshCreateGetsNewId ==
    [][/\ \A p \in Procs :
             Executes(p) /\ req[p].op = "create" /\ BodyDni(p) \notin LiveDnis
               => /\ resp'[p].status = 201
                  /\ resp'[p].body.kind = "id"
                  /\ \A j \in issued \cup deleted : resp'[p].body.id > j
                  /\ resp'[p].body.id \in LiveIds'
       /\ \A i \in LiveIds' \ LiveIds : i \notin issued \cup deleted]_vars

\* A create was answered 201 after an earlier id had been deleted.
FreshCreateWitness ==
    \E p \in Procs :
        /\ Answered(p, "create", 201)
        /\ deleted # {}
        /\ \A j \in deleted : resp[p].body.id > j

\* C4: get answers 200 with the id and the four values last written to it
\* when the row is live, and 404 when the id was never created or was
\* deleted.
GetReturnsLastWritten ==
    [][\A p \in Procs :
          Executes(p) /\ req[p].op = "get"
            => LET e == { x \in expected : x.id = req[p].id }
               IN  /\ e # {} <=> req[p].id \in LiveIds
                   /\ e # {} => /\ Cardinality(e) = 1
                                /\ resp'[p] = Response(200, [kind |-> "person",
                                                 person |-> CHOOSE x \in e : TRUE])
                   /\ e = {} => resp'[p].status = 404
                   /\ (req[p].id \notin issued \/ req[p].id \in deleted)
                        => resp'[p].status = 404]_vars

\* A get returned the values an acknowledged update wrote.
GetReturnsLastWrittenWitness ==
    \E p, q \in Procs :
        /\ Answered(p, "get", 200)
        /\ Answered(q, "update", 200)
        /\ req[p].id = req[q].id
        /\ resp[p].body.person = Entry(req[q].id, req[q].body)
        /\ resp[p].body.person \in expected

\* C5: delete on a live id answers 200 and removes exactly that row; get and
\* delete on a deleted id answer 404; delete is the only step that makes a
\* present row absent.
DeleteRemovesExactlyThatRow ==
    [][/\ \A p \in Procs :
             Executes(p) /\ req[p].op = "delete"
               => IF req[p].id \in LiveIds
                  THEN /\ resp'[p].status = 200
                       /\ person' = { r \in person : r.id # req[p].id }
                       /\ Cardinality(person') = Cardinality(person) - 1
                  ELSE /\ resp'[p].status = 404
                       /\ person' = person
       /\ \A p \in Procs :
             Executes(p) /\ req[p].op \in {"get", "delete"} /\ req[p].id \in deleted
               => resp'[p].status = 404
       /\ LiveIds \ LiveIds' # {}
             => \E p \in Procs : /\ Executes(p) /\ req[p].op = "delete"
                                 /\ LiveIds \ LiveIds' = {req[p].id}]_vars

\* After a delete answered 200, a get and a second delete of the id got 404.
DeleteWitness ==
    \E p, q \in Procs :
        /\ Answered(p, "delete", 404)
        /\ Answered(q, "get", 404)
        /\ req[p].id \in deleted
        /\ req[q].id = req[p].id

\* C6: update answers 404 exactly when no live row has the id, and then the
\* table is unchanged whatever the body; on a live id with a body that
\* conflicts with no other row it answers 200, also with unchanged values.
UpdateNotFoundIffAbsent ==
    [][\A p \in Procs :
          Executes(p) /\ req[p].op = "update"
            => /\ resp'[p].status = 404 <=> req[p].id \notin LiveIds
               /\ req[p].id \notin LiveIds => person' = person
               /\ req[p].id \in LiveIds /\ ~ConflictingUpdate(p)
                    => resp'[p].status = 200]_vars

\* An update of a created row to the values it was created with answered
\* 200, and an update of an absent id naming a live dni answered 404.
UpdateWitness ==
    \E p, q \in Procs :
        /\ Answered(p, "update", 200)
        /\ Entry(req[p].id, req[p].body) \in expected
        /\ Answered(q, "update", 404)
        /\ BodyDni(q) \in LiveDnis

SameDni(c) == BodyDni(c.a) = BodyDni(c.b)

\* C7: of two creates with the same dni in flight together, the dni not
\* live, exactly one answers 201 and the other 400 and one row holds the
\* dni; two such creates with different dnis both answer 201 with distinct
\* ids.
ConcurrentCreates ==
    \A c \in races :
        pc[c.a] = "done" /\ pc[c.b] = "done"
          => IF SameDni(c)
             THEN /\ {resp[c.a].status, resp[c.b].status} = {201, 400}
                  /\ Cardinality({ r \in person : r.dni = BodyDni(c.a) }) = 1
             ELSE /\ resp[c.a].status = 201
                  /\ resp[c.b].status = 201
                  /\ resp[c.a].body.id # resp[c.b].body.id

\* Two racing creates with one dni have both returned, the later arrival
\* having won.
ConcurrentCreatesWitness ==
    \E c \in races :
        /\ SameDni(c)
        /\ Answered(c.a, "create", 400)
        /\ Answered(c.b, "create", 201)

\* C8: a create or update whose body is malformed or lacks a required field
\* answers 400 with an {error} JSON body.
RejectedBodyAnswers400Error ==
    \A p \in Procs :
        pc[p] = "done" /\ req[p].op \in {"create", "update"}
                      /\ JsonRejection(req[p].body) # 0
          => resp[p].status = 400 /\ resp[p].body.kind = "error"

\* C9: a storage error that is no uniqueness violation answers 500; a
\* handler answers 400 only for a uniqueness violation and 404 only when no
\* row has the id.
BackendFailureAnswers500 ==
    [][\A p \in Procs :
          Executes(p)
            => /\ resp'[p].body.kind = "error" /\ resp'[p].body.error = "backend"
                    => resp'[p].status = 500
               /\ resp'[p].status = 400 => resp'[p].body.error = "constraint"
               /\ resp'[p].status = 404 => req[p].id \notin LiveIds]_vars

ListedPersons(p) == { resp[p].body.persons[i] : i \in 1..Len(resp[p].body.persons) }

\* C10: list answers 200 with exactly the live rows, each once with its
\* current values, and list and get leave the store unchanged.
ListReturnsLiveRows ==
    [][\A p \in Procs :
          Executes(p)
            => /\ req[p].op = "list"
                    => /\ resp'[p].status = 200
                       /\ resp'[p].body.kind = "list"
                       /\ ListedPersons(p)' = expected
                       /\ ListedPersons(p)' = { PersonJson(r) : r \in person }
                       /\ Len(resp'[p].body.persons) = Cardinality(expected)
               /\ req[p].op \in {"list", "get"} => UNCHANGED store]_vars

\* A list returned the one person left after another was deleted.
ListWitness ==
    \E p \in Procs :
        /\ Answered(p, "list", 200)
        /\ deleted # {}
        /\ ListedPersons(p) # {}
        /\ ListedPersons(p) = expected

====
